---- MODULE Spec2Model ----
(***************************************************************************)
(* A model of scripts/remove-bg.py: the filter driver main() that reads    *)
(* all of stdin, hands the bytes to rembg.remove, and writes the result to *)
(* stdout, reporting failures on stderr and through the exit status.       *)
(*                                                                         *)
(* main() is a sequential program; pc is the statement it is about to      *)
(* execute.  rembg.remove and the standard streams are the environment:    *)
(* remove returns an arbitrary byte buffer or raises an arbitrary          *)
(* Exception, and the write to stdout either accepts the whole buffer or   *)
(* raises after having accepted a strict prefix of it.                     *)
(***************************************************************************)
EXTENDS Naturals, Sequences, FiniteSets, TLC

VARIABLES
    pc,           \* the statement main() is about to execute
    stdin,        \* the bytes the producer sends on sys.stdin before closing it
    stdin_pos,    \* how many of them sys.stdin.buffer has delivered
    input_data,   \* line 18: the bytes read so far / the buffer read() returned
    output_data,  \* line 26: <<>> while unassigned, <<O>> once remove returned O
    exc,          \* <<>> while no exception is in flight, <<e>> once e was raised in the try body
    removeCalls,  \* the arguments remove was called with, in order
    stdout,       \* the bytes sys.stdout.buffer accepted
    stderr,       \* the characters sys.stderr accepted
    exit_status   \* <<>> while the process runs, <<code>> once it exited

vars == <<pc, stdin, stdin_pos, input_data, output_data, exc, removeCalls, stdout, stderr, exit_status>>

----------------------------------------------------------------------------
(* Bounds of the model *)

MaxInLen == 2     \* longest stdin content
MaxOutLen == 2    \* longest buffer remove returns
MaxByte == 1      \* bytes are 0..MaxByte
MaxMsgLen == 1    \* longest exception message

Byte == 0..MaxByte

MsgChar == {"x"}

SeqsUpTo(S, n) == UNION {[1..k -> S] : k \in 0..n}

Inputs == SeqsUpTo(Byte, MaxInLen)

\* remove returns a PNG-encoded image, never an empty buffer
Outputs == SeqsUpTo(Byte, MaxOutLen) \ {<<>>}

Messages == SeqsUpTo(MsgChar, MaxMsgLen)

----------------------------------------------------------------------------
(* Exceptions: a class and the args tuple it was constructed with *)

ExceptionSubclasses == {"ValueError", "OSError", "MemoryError"}

ExceptionArgs == {<<>>} \cup {<<m>> : m \in Messages}

Exceptions == [cls : ExceptionSubclasses, args : ExceptionArgs]

\* `except Exception`: the handler matches instances of Exception subclasses
IsException_OnlyValueError(e) == e.cls = "ValueError"

IsException(e) == e.cls \in ExceptionSubclasses

\* str(e): the empty string for an exception without args, else its argument
Str(e) == IF e.args = <<>> THEN <<>> ELSE e.args[1]

\* `not input_data`: a bytes object is falsy exactly when it is empty
Falsy_Never(b) == FALSE

Falsy(b) == Len(b) = 0

\* "Error: No input data received\n"
NoInputLine ==
    <<"E","r","r","o","r",":"," ","N","o"," ","i","n","p","u","t"," ",
      "d","a","t","a"," ","r","e","c","e","i","v","e","d","\n">>

\* f"Error: {str(e)}\n"
ErrorLine(e) == <<"E","r","r","o","r",":"," ">> \o Str(e) \o <<"\n">>

----------------------------------------------------------------------------
Init ==
    /\ pc = "read"
    /\ stdin \in Inputs
    /\ stdin_pos = 0
    /\ input_data = <<>>
    /\ output_data = <<>>
    /\ exc = <<>>
    /\ removeCalls = <<>>
    /\ stdout = <<>>
    /\ stderr = <<>>
    /\ exit_status = <<>>

\* line 18, sys.stdin.buffer.read(): consume the bytes the stream delivers ...
ReadChunk ==
    /\ pc = "read"
    /\ \E n \in 1..(Len(stdin) - stdin_pos) :
          /\ input_data' = input_data \o SubSeq(stdin, stdin_pos + 1, stdin_pos + n)
          /\ stdin_pos' = stdin_pos + n
    /\ UNCHANGED <<pc, stdin, output_data, exc, removeCalls, stdout, stderr, exit_status>>

\* ... and return once end-of-stream is reached
ReadEOF_Early ==
    /\ pc = "read"
    /\ pc' = "test"
    /\ UNCHANGED <<stdin, stdin_pos, input_data, output_data, exc, removeCalls, stdout, stderr, exit_status>>

ReadEOF ==
    /\ pc = "read"
    /\ stdin_pos = Len(stdin)
    /\ pc' = "test"
    /\ UNCHANGED <<stdin, stdin_pos, input_data, output_data, exc, removeCalls, stdout, stderr, exit_status>>

\* line 20, `if not input_data:`
TestInput_PollOnEmpty ==
    /\ pc = "test"
    /\ pc' = IF Falsy(input_data) THEN "read" ELSE "call"
    /\ UNCHANGED <<stdin, stdin_pos, input_data, output_data, exc, removeCalls, stdout, stderr, exit_status>>

TestInput ==
    /\ pc = "test"
    /\ pc' = IF Falsy(input_data) THEN "report_empty" ELSE "call"
    /\ UNCHANGED <<stdin, stdin_pos, input_data, output_data, exc, removeCalls, stdout, stderr, exit_status>>

\* line 21
ReportEmpty_NoNewline ==
    /\ pc = "report_empty"
    /\ stderr' = stderr \o SubSeq(NoInputLine, 1, Len(NoInputLine) - 1)
    /\ pc' = "exit_empty"
    /\ UNCHANGED <<stdin, stdin_pos, input_data, output_data, exc, removeCalls, stdout, exit_status>>

ReportEmpty ==
    /\ pc = "report_empty"
    /\ stderr' = stderr \o NoInputLine
    /\ pc' = "exit_empty"
    /\ UNCHANGED <<stdin, stdin_pos, input_data, output_data, exc, removeCalls, stdout, exit_status>>

\* line 22
ExitEmpty ==
    /\ pc = "exit_empty"
    /\ exit_status' = <<1>>
    /\ pc' = "done"
    /\ UNCHANGED <<stdin, stdin_pos, input_data, output_data, exc, removeCalls, stdout, stderr>>

\* line 26, the call: remove receives the buffer read from stdin
CallRemove_Retry ==
    /\ pc \in {"call", "except"}
    /\ Len(removeCalls) < 3
    /\ removeCalls' = Append(removeCalls, input_data)
    /\ exc' = <<>>
    /\ pc' = "removing"
    /\ UNCHANGED <<stdin, stdin_pos, input_data, output_data, stdout, stderr, exit_status>>

CallRemove ==
    /\ pc = "call"
    /\ removeCalls' = Append(removeCalls, input_data)
    /\ pc' = "removing"
    /\ UNCHANGED <<stdin, stdin_pos, input_data, output_data, exc, stdout, stderr, exit_status>>

\* line 26, remove returns a buffer, which is bound to output_data
RemoveReturns ==
    /\ pc = "removing"
    /\ \E O \in Outputs : output_data' = <<O>>
    /\ pc' = "write"
    /\ UNCHANGED <<stdin, stdin_pos, input_data, exc, removeCalls, stdout, stderr, exit_status>>

\* line 26, remove raises: control leaves the try body
RemoveRaises ==
    /\ pc = "removing"
    /\ \E e \in Exceptions : exc' = <<e>>
    /\ pc' = "except"
    /\ UNCHANGED <<stdin, stdin_pos, input_data, output_data, removeCalls, stdout, stderr, exit_status>>

\* line 29, sys.stdout.buffer.write(output_data) accepts the whole buffer
WriteReturns_Truncated ==
    /\ pc = "write"
    /\ stdout' = stdout \o SubSeq(output_data[1], 1, Len(output_data[1]) - 1)
    /\ pc' = "return"
    /\ UNCHANGED <<stdin, stdin_pos, input_data, output_data, exc, removeCalls, stderr, exit_status>>

WriteReturns ==
    /\ pc = "write"
    /\ stdout' = stdout \o output_data[1]
    /\ pc' = "return"
    /\ UNCHANGED <<stdin, stdin_pos, input_data, output_data, exc, removeCalls, stderr, exit_status>>

\* line 29, the write raises after the stream accepted a strict prefix of the
\* buffer: control leaves the try body
WriteRaises_OutsideTry ==
    /\ pc = "write"
    /\ \E k \in 0..(Len(output_data[1]) - 1) :
          stdout' = stdout \o SubSeq(output_data[1], 1, k)
    /\ \E e \in Exceptions : exc' = <<e>>
    /\ stderr' = stderr \o <<"T","r","a","c","e","b","a","c","k","\n">>
    /\ pc' = "exit_exc"
    /\ UNCHANGED <<stdin, stdin_pos, input_data, output_data, removeCalls, exit_status>>

WriteRaises ==
    /\ pc = "write"
    /\ \E k \in 0..(Len(output_data[1]) - 1) :
          stdout' = stdout \o SubSeq(output_data[1], 1, k)
    /\ \E e \in Exceptions : exc' = <<e>>
    /\ pc' = "except"
    /\ UNCHANGED <<stdin, stdin_pos, input_data, output_data, removeCalls, stderr, exit_status>>

\* lines 30-31, `except Exception as e:` matches and the error line is written
ReportException_AlsoStdout ==
    /\ pc = "except"
    /\ IsException(exc[1])
    /\ stderr' = stderr \o ErrorLine(exc[1])
    /\ stdout' = stdout \o input_data
    /\ pc' = "exit_exc"
    /\ UNCHANGED <<stdin, stdin_pos, input_data, output_data, exc, removeCalls, exit_status>>

ReportException ==
    /\ pc = "except"
    /\ IsException(exc[1])
    /\ stderr' = stderr \o ErrorLine(exc[1])
    /\ pc' = "exit_exc"
    /\ UNCHANGED <<stdin, stdin_pos, input_data, output_data, exc, removeCalls, stdout, exit_status>>

\* line 32
ExitException_Status0 ==
    /\ pc = "exit_exc"
    /\ exit_status' = <<0>>
    /\ pc' = "done"
    /\ UNCHANGED <<stdin, stdin_pos, input_data, output_data, exc, removeCalls, stdout, stderr>>

ExitException ==
    /\ pc = "exit_exc"
    /\ exit_status' = <<1>>
    /\ pc' = "done"
    /\ UNCHANGED <<stdin, stdin_pos, input_data, output_data, exc, removeCalls, stdout, stderr>>

\* lines 34-35: main() returns normally and the interpreter exits with status 0
ReturnFromMain ==
    /\ pc = "return"
    /\ exit_status' = <<0>>
    /\ pc' = "done"
    /\ UNCHANGED <<stdin, stdin_pos, input_data, output_data, exc, removeCalls, stdout, stderr>>

Next ==
    \/ ReadChunk
    \/ ReadEOF
    \/ TestInput
    \/ ReportEmpty
    \/ ExitEmpty
    \/ CallRemove
    \/ RemoveReturns
    \/ RemoveRaises
    \/ WriteReturns
    \/ WriteRaises
    \/ ReportException
    \/ ExitException
    \/ ReturnFromMain

Spec == Init /\ [][Next]_vars

\* main() is the only thread and each of its statements completes once the
\* stream or the capability it blocks on answers
LiveSpec == Spec /\ WF_vars(Next)

----------------------------------------------------------------------------
(* Vocabulary of the properties *)

\* read() has returned: input_data is the input buffer of the run
InputRead == pc # "read"

EmptyInput == InputRead /\ input_data = <<>>

\* remove returned normally (its result was bound to output_data)
RemoveReturned == output_data # <<>>

\* the exception in flight was raised by remove / by the write to stdout
RemoveRaised == output_data = <<>> /\ exc # <<>>

WriteRaised == output_data # <<>> /\ exc # <<>>

\* the write to stdout returned normally
WriteReturned == output_data # <<>> /\ exc = <<>> /\ pc \in {"return", "done"}

Terminated == pc = "done"

ErrorPrefix == <<"E","r","r","o","r",":"," ">>

Newline == <<"\n">>

NoInputText ==
    <<"E","r","r","o","r",":"," ","N","o"," ","i","n","p","u","t"," ",
      "d","a","t","a"," ","r","e","c","e","i","v","e","d">>

\* s is a prefix of t, shorter than t
StrictPrefix(s, t) == Len(s) < Len(t) /\ s = SubSeq(t, 1, Len(s))

----------------------------------------------------------------------------
\* C1: stdout holds a byte only if the buffer read from stdin is non-empty and
\* remove, called with it, returned without raising; stdout is empty whenever
\* the input is empty and whenever remove raised.
C1_OutputOnlyAfterSuccess ==
    /\ stdout # <<>> =>
          /\ InputRead
          /\ input_data # <<>>
          /\ removeCalls = <<input_data>>
          /\ RemoveReturned
    /\ EmptyInput => stdout = <<>>
    /\ RemoveRaised => stdout = <<>>

C1_Witness == Terminated /\ stdout # <<>> /\ RemoveReturned /\ input_data # <<>>

\* C2: for empty input, remove is never invoked, stdout stays empty, and the
\* run ends with exactly "Error: No input data received\n" on stderr and exit
\* status 1.
C2_EmptyInput ==
    EmptyInput =>
        /\ removeCalls = <<>>
        /\ stdout = <<>>
        /\ pc \in {"test", "report_empty", "exit_empty", "done"}
        /\ Terminated => stderr = NoInputText \o Newline /\ exit_status = <<1>>

C2_Witness == Terminated /\ stdin = <<>> /\ EmptyInput /\ stderr # <<>>

\* C3: every exception remove raises, whatever its class, is caught; the run
\* then writes "Error: " + str(e) + "\n" to stderr, nothing to stdout, and
\* exits with status 1.
C3_RemovalFailure ==
    RemoveRaised =>
        /\ pc \in {"except", "exit_exc", "done"}
        /\ pc = "except" => ENABLED ReportException
        /\ stdout = <<>>
        /\ pc \in {"exit_exc", "done"} => stderr = ErrorPrefix \o Str(exc[1]) \o Newline
        /\ Terminated => exit_status = <<1>>

C3_Witness ==
    /\ Terminated
    /\ RemoveRaised
    /\ exc[1].cls = "MemoryError"
    /\ Str(exc[1]) # <<>>
    /\ input_data # <<>>

C5_WriteOrdering ==
    /\ [](stdout # <<>> =>
             /\ stdin_pos = Len(stdin)
             /\ InputRead
             /\ RemoveReturned
             /\ pc \notin {"test", "call", "removing"})
    /\ [][stdout' # stdout =>
             /\ pc = "write"
             /\ stdin_pos = Len(stdin)
             /\ input_data = stdin
             /\ RemoveReturned
             /\ exc = <<>>]_vars

C5_Witness == stdout # <<>> /\ stdin_pos = Len(stdin) /\ Len(stdin) = MaxInLen

\* C6 as stated: a terminated run never has both bytes on stdout and an error
\* line on stderr, and stdout never holds a strict non-empty prefix of the
\* output buffer.
C6_Original ==
    Terminated =>
        /\ ~(stdout # <<>> /\ stderr # <<>>)
        /\ RemoveReturned => ~(stdout # <<>> /\ StrictPrefix(stdout, output_data[1]))

\* C6 (amended): a terminated run has at most one line on stderr; if the write
\* to stdout did not raise, stdout holds nothing or the full output buffer and
\* holds bytes only if stderr is empty; if the write raised, stdout holds a
\* strict prefix of the output buffer and stderr holds one error line.
C6_AtMostOne ==
    Terminated =>
        /\ \/ stderr = <<>>
           \/ stderr = NoInputText \o Newline
           \/ exc # <<>> /\ stderr = ErrorPrefix \o Str(exc[1]) \o Newline
        /\ ~WriteRaised =>
              /\ ~(stdout # <<>> /\ stderr # <<>>)
              /\ stdout = <<>> \/ (RemoveReturned /\ stdout = output_data[1])
        /\ WriteRaised =>
              /\ StrictPrefix(stdout, output_data[1])
              /\ stderr = ErrorPrefix \o Str(exc[1]) \o Newline

C6_Witness ==
    /\ Terminated
    /\ WriteRaised
    /\ stdout # <<>>
    /\ StrictPrefix(stdout, output_data[1])
    /\ stderr # <<>>

\* C7 as stated: the exit status is 0 or 1; 0 iff the complete output buffer
\* was written to stdout; 1 iff the input was empty or remove raised.
C7_Original ==
    Terminated =>
        /\ exit_status \in {<<0>>, <<1>>}
        /\ exit_status = <<0>> <=> (WriteReturned /\ stdout = output_data[1])
        /\ exit_status = <<1>> <=> (EmptyInput \/ RemoveRaised)

\* C7 (amended): the exit status is 0 or 1; 0 iff the complete output buffer
\* was written to stdout; 1 iff the input was empty, remove raised, or the
\* write of the output buffer to stdout raised.
C7_ExitStatus ==
    /\ exit_status # <<>> <=> Terminated
    /\ Terminated =>
        /\ exit_status \in {<<0>>, <<1>>}
        /\ exit_status = <<0>> <=> (WriteReturned /\ stdout = output_data[1])
        /\ exit_status = <<1>> <=> (EmptyInput \/ RemoveRaised \/ WriteRaised)

C7_Witness == Terminated /\ exit_status = <<1>> /\ WriteRaised /\ ~EmptyInput

\* the position of a statement in the single pass of main()
Phase(p) ==
    CASE p = "read" -> 1
      [] p = "test" -> 2
      [] p \in {"report_empty", "call"} -> 3
      [] p \in {"exit_empty", "removing"} -> 4
      [] p = "write" -> 5
      [] p \in {"except", "return"} -> 6
      [] p = "exit_exc" -> 7
      [] p = "done" -> 8

\* C8: remove is invoked at most once, exactly once for non-empty input and
\* never for empty input; after an exception nothing is invoked again, and
\* once an error line is on stderr the run only exits: no further write to
\* stdout, no further call.
C8_SingleShot ==
    /\ [](/\ Len(removeCalls) <= 1
          /\ Terminated => Len(removeCalls) = (IF input_data = <<>> THEN 0 ELSE 1)
          /\ EmptyInput => removeCalls = <<>>
          /\ stderr # <<>> => pc \in {"exit_empty", "exit_exc", "done"})
    /\ [][exc # <<>> => removeCalls' = removeCalls /\ output_data' = output_data]_vars
    /\ [][stderr # <<>> =>
             /\ stdout' = stdout
             /\ stderr' = stderr
             /\ removeCalls' = removeCalls
             /\ pc' = "done"]_vars

C8_Witness == Terminated /\ RemoveRaised /\ Len(removeCalls) = 1 /\ stderr # <<>>

C10_WriteFailure ==
    /\ WriteRaised =>
          /\ pc \in {"except", "exit_exc", "done"}
          /\ pc = "except" => ENABLED ReportException
          /\ pc = "except" => stderr = <<>>
          /\ pc \in {"exit_exc", "done"} => stderr = ErrorPrefix \o Str(exc[1]) \o Newline
          /\ Terminated => exit_status = <<1>>
    /\ exit_status = <<0>> => ~WriteRaised

C10_Witness ==
    /\ Terminated
    /\ WriteRaised
    /\ stdout # <<>>
    /\ Str(exc[1]) # <<>>
    /\ exit_status = <<1>>
====
